---- MODULE Spec2Model ----
(***************************************************************************)
(* Requirement negotiation loop of the product research agent:             *)
(* WorkflowOrchestrator._gather_requirements with PlannerAgent,            *)
(* CollectorAgent, LLMClient._extract_json and the UserRequirements model. *)
(*                                                                         *)
(* Conventions.                                                            *)
(*  - A Python str is a TLA+ string; the text of an LLM reply is a         *)
(*    sequence of pieces (whitespace, fences, prose, JSON values).         *)
(*  - completeness_score / confidence are held in hundredths (0.7 = 70);   *)
(*    budget amounts are whole currency units.                             *)
(*  - Optional[X] is a set with at most one element; {} is None.           *)
(*  - A JSON value is a tagged record: null, str, num, bool, list, obj.    *)
(***************************************************************************)
EXTENDS Integers, Sequences, FiniteSets, TLC

VARIABLES
    pc,                   \* position in _gather_requirements
    initial_input,        \* argument of _gather_requirements
    conversation_history, \* local list of user messages
    decision,             \* local: latest PlannerDecision
    requirements,         \* local: running UserRequirements
    iteration,            \* local loop counter
    user_response,        \* local: last answer returned by collector.gather
    asked_questions,      \* CollectorAgent.asked_questions
    collector_llm,        \* what the collector's backend answers in this session
    outcome,              \* how _gather_requirements ended ("running" before)
    returned,             \* value returned by _gather_requirements ({} = None)
    last_llm,             \* class of the last reply to planner.llm.structured_output
    analyze_calls,        \* number of PlannerAgent.analyze invocations
    all_zero,             \* every Decision so far: need_more_info and score 0.0
    before_round,         \* what the running requirements held when the round began
    last_answer,          \* the line the user typed last ({} before the first)
    collector_calls,      \* number of LLM calls made by CollectorAgent
    reads,                \* number of blocking reads of user input (get_input)
    printed,              \* the messages _gather_requirements gave to print_error
    shown,                \* the questions gather printed to the console
    last_parse,           \* how the last _parse_decision ended ("none" before)
    runs,                 \* number of WorkflowOrchestrator.run calls begun
    report,               \* outcome of the current run ({} while it runs)
    collaborator_calls,   \* the calls run made to the researcher and the analyzer
    arg,                  \* function-level runs: the argument of the call
    ret                   \* function-level runs: what the call gave ({} before)

vars == <<pc, initial_input, collector_llm, conversation_history, decision, requirements,
          iteration, user_response, asked_questions, outcome, returned,
          last_llm, analyze_calls, all_zero, before_round, last_answer,
          collector_calls, reads, printed, shown, last_parse, runs, report,
          collaborator_calls, arg, ret>>

----------------------------------------------------------------------------
(* JSON values as returned by json.loads *)

JNull == [t |-> "null"]
JStr(s) == [t |-> "str", s |-> s]
JNum(n) == [t |-> "num", n |-> n]
JBool(b) == [t |-> "bool", b |-> b]
JList(l) == [t |-> "list", l |-> l]
JObj(o) == [t |-> "obj", o |-> o]

EmptyMap == [k \in {} |-> JNull]

\* Python truthiness of a JSON value
Truthy(v) ==
    CASE v.t = "null" -> FALSE
      [] v.t = "str"  -> v.s # ""
      [] v.t = "num"  -> v.n # 0
      [] v.t = "bool" -> v.b
      [] v.t = "list" -> Len(v.l) > 0
      [] v.t = "obj"  -> DOMAIN v.o # {}

\* dict.get(key, default) on the mapping of a JSON object
Get(o, key, default) == IF key \in DOMAIN o THEN o[key] ELSE default

\* the union in which the first mapping wins on a common key
DictUnion_FirstWins(d1, d2) ==
    [k \in DOMAIN d1 \cup DOMAIN d2 |-> IF k \in DOMAIN d1 THEN d1[k] ELSE d2[k]]

\* d1 overridden by d2: {**d1, **d2}
DictUnion(d1, d2) ==
    [k \in DOMAIN d1 \cup DOMAIN d2 |-> IF k \in DOMAIN d2 THEN d2[k] ELSE d1[k]]

----------------------------------------------------------------------------
(* Python str operations, computed on the characters of the string *)

UpperCase == <<"A", "B", "C", "D", "E", "F", "G", "H", "I", "J", "K", "L", "M",
               "N", "O", "P", "Q", "R", "S", "T", "U", "V", "W", "X", "Y", "Z">>
LowerCase == <<"a", "b", "c", "d", "e", "f", "g", "h", "i", "j", "k", "l", "m",
               "n", "o", "p", "q", "r", "s", "t", "u", "v", "w", "x", "y", "z">>

LowerChar[c \in STRING] ==
    IF \E i \in DOMAIN UpperCase : UpperCase[i] = c
    THEN LowerCase[CHOOSE i \in DOMAIN UpperCase : UpperCase[i] = c]
    ELSE c

\* the characters of s lowered, first character first
LowerFrom[s \in STRING] ==
    IF s = "" THEN ""
    ELSE LowerChar[SubSeq(s, 1, 1)] \o LowerFrom[SubSeq(s, 2, Len(s))]

\* str.lower()
Lower(s) == LowerFrom[s]

\* p in s
Contains(s, p) ==
    \E i \in 1..(Len(s) - Len(p) + 1) : SubSeq(s, i, i + Len(p) - 1) = p

WhitespaceChars == {" ", "\n", "\t", "\r"}

RECURSIVE LStrip(_)
LStrip(s) ==
    IF Len(s) > 0 /\ SubSeq(s, 1, 1) \in WhitespaceChars
    THEN LStrip(SubSeq(s, 2, Len(s))) ELSE s

RECURSIVE RStrip(_)
RStrip(s) ==
    IF Len(s) > 0 /\ SubSeq(s, Len(s), Len(s)) \in WhitespaceChars
    THEN RStrip(SubSeq(s, 1, Len(s) - 1)) ELSE s

\* str.strip()
Strip(s) == RStrip(LStrip(s))

\* sep.join(l)
RECURSIVE Join(_, _)
Join(sep, l) ==
    IF l = <<>> THEN ""
    ELSE IF Len(l) = 1 THEN l[1]
    ELSE l[1] \o sep \o Join(sep, Tail(l))

----------------------------------------------------------------------------
(* models/requirements.py *)

\* BudgetConstraint.validate_max: the value is accepted iff it is positive
validate_max(v) == v > 0

\* BudgetConstraint.validate_min: None or a non-negative value
validate_min(v) == \A m \in v : m >= 0

BudgetConstraint(min, max, flexible) ==
    [min |-> min, max |-> max, flexible |-> flexible, flexibility_percent |-> {}]

\* UserRequirements with the field defaults of the class
UserRequirements(product_category, budget, use_case, must_have_specs, nice_to_have_specs, deal_breakers, preferred_brands, excluded_brands, priorities, completeness_score, raw_input) ==
    [product_category    |-> product_category,
     budget              |-> budget,
     use_case            |-> use_case,
     must_have_specs     |-> must_have_specs,
     nice_to_have_specs  |-> nice_to_have_specs,
     deal_breakers       |-> deal_breakers,
     preferred_brands    |-> preferred_brands,
     excluded_brands     |-> excluded_brands,
     preferred_retailers |-> <<>>,
     priorities          |-> priorities,
     completeness_score  |-> completeness_score,
     raw_input           |-> raw_input]

\* UserRequirements(raw_input=...)
EmptyRequirements(raw_input) ==
    UserRequirements("", {}, "", EmptyMap, EmptyMap, <<>>, <<>>, <<>>, <<>>, 0,
                     raw_input)

\* the score from which a requirement counts as good enough (0.7)
ScoreThreshold == 70

\* the category must be longer than this many characters
MinCategoryLen == 2

\* is_complete accepting a category of exactly MinCategoryLen characters
is_complete_NonStrict(self) ==
    /\ self.product_category # "" /\ Len(self.product_category) >= MinCategoryLen
    /\ self.budget # {} /\ \A b \in self.budget : b.max > 0
    /\ (DOMAIN self.must_have_specs # {} \/ self.use_case # "")
    /\ self.completeness_score >= ScoreThreshold

is_complete(self) ==
    LET has_category == self.product_category # ""
                        /\ Len(self.product_category) > MinCategoryLen
        has_budget == self.budget # {} /\ \A b \in self.budget : b.max > 0
        has_specs_or_usecase == DOMAIN self.must_have_specs # {}
                                \/ self.use_case # ""
        has_good_score == self.completeness_score >= ScoreThreshold
    IN  has_category /\ has_budget /\ has_specs_or_usecase /\ has_good_score

\* get_missing_fields without the budget test
get_missing_fields_NoBudget(self) ==
    (IF self.product_category = "" THEN <<"product_category">> ELSE <<>>)
    \o (IF DOMAIN self.must_have_specs = {} /\ self.use_case = ""
        THEN <<"specifications_or_use_case">> ELSE <<>>)

get_missing_fields(self) ==
    (IF self.product_category = "" THEN <<"product_category">> ELSE <<>>)
    \o (IF self.budget = {} \/ \E b \in self.budget : b.max <= 0
        THEN <<"budget">> ELSE <<>>)
    \o (IF DOMAIN self.must_have_specs = {} /\ self.use_case = ""
        THEN <<"specifications_or_use_case">> ELSE <<>>)

\* PlannerDecision with the field defaults of the class
PlannerDecision(status, missing_fields, reqs, confidence, reasoning, suggested_questions) ==
    [status              |-> status,
     missing_fields      |-> missing_fields,
     requirements        |-> reqs,
     confidence          |-> confidence,
     reasoning           |-> reasoning,
     suggested_questions |-> suggested_questions]

----------------------------------------------------------------------------
(* Outcome of a call: a returned value or a raised exception *)

Raise == [raised |-> TRUE]
Return(v) == [raised |-> FALSE, value |-> v]

----------------------------------------------------------------------------
(* utils/llm.py *)

\* The text of a reply of the backend is a sequence of pieces: a run of
\* whitespace, a code fence, prose, or the serialisation of a JSON value.
Space == [k |-> "ws"]
FenceJson == [k |-> "fence_json"]    \* the text ```json
Fence == [k |-> "fence"]             \* the text ```
Prose == [k |-> "prose"]             \* words without braces or fences
Json(v) == [k |-> "json", v |-> v]   \* the serialisation of JSON value v;
                                     \* only an object's text holds braces

IsSpace(tok) == tok.k = "ws"

RECURSIVE LStripReply(_)
LStripReply(s) ==
    IF s # <<>> /\ IsSpace(Head(s)) THEN LStripReply(Tail(s)) ELSE s

RECURSIVE RStripReply(_)
RStripReply(s) ==
    IF s # <<>> /\ IsSpace(s[Len(s)])
    THEN RStripReply(SubSeq(s, 1, Len(s) - 1)) ELSE s

\* str.strip() on the text of a reply
StripReply(s) == RStripReply(LStripReply(s))

\* a reply of the backend: an API error or a text
ApiError == [kind |-> "error"]
ReplyText(text) == [kind |-> "text", text |-> text]

\* str.find over tokens: least index >= from whose token satisfies the test, 0 if none
FirstFrom(text, from, kinds) ==
    LET hits == {i \in from..Len(text) : text[i].k \in kinds}
    IN  IF hits = {} THEN 0 ELSE CHOOSE i \in hits : \A j \in hits : i <= j

IsObjectToken(tok) == tok.k = "json" /\ tok.v.t = "obj"

\* json.loads of a text: defined iff the text is one JSON value
LoadsOk(text) == Len(text) = 1 /\ text[1].k = "json"

_extract_json(response) ==
    LET text0 == StripReply(response)
        fj == FirstFrom(text0, 1, {"fence_json"})
        end == FirstFrom(text0, fj + 1, {"fence", "fence_json"})
        text1 ==
            IF fj # 0
            THEN IF end # 0 THEN StripReply(SubSeq(text0, fj + 1, end - 1)) ELSE text0
            ELSE IF text0 # <<>> /\ text0[1].k = "fence"
                 THEN LET t == Tail(text0)
                      IN  IF t # <<>> /\ t[Len(t)].k = "fence"
                          THEN SubSeq(t, 1, Len(t) - 1) ELSE t
                 ELSE text0
        text == StripReply(text1)
        objs == {i \in 1..Len(text) : IsObjectToken(text[i])}
        start == CHOOSE i \in objs : \A j \in objs : i <= j
        last == CHOOSE i \in objs : \A j \in objs : j <= i
    IN  IF LoadsOk(text) THEN Return(text[1].v)
        ELSE IF objs # {} /\ LoadsOk(SubSeq(text, start, last))
             THEN Return(text[start].v)
             ELSE Raise

\* LLMClient.call: the backend's error is raised as RuntimeError
call(reply) == IF reply.kind = "error" THEN Raise ELSE Return(reply.text)

\* LLMClient.structured_output: call(..., json_mode=True)
structured_output(reply) ==
    LET response == call(reply)
    IN  IF response.raised THEN Raise ELSE _extract_json(response.value)

----------------------------------------------------------------------------
(* agents/planner.py *)

\* pydantic validation of a JSON value against a field type. Replies carry
\* numbers (never numeric strings or booleans) where a float is expected.
IsStr(v) == v.t = "str"
IsFloat(v) == v.t = "num"
IsOptFloat(v) == v.t = "null" \/ IsFloat(v)
IsBool(v) == v.t = "bool" \/ (v.t = "num" /\ v.n \in {0, 1})
Bool(v) == IF v.t = "bool" THEN v.b ELSE v.n = 1
IsDict(v) == v.t = "obj"
IsStrList(v) == v.t = "list" /\ \A i \in 1..Len(v.l) : IsStr(v.l[i])

StrList(v) == [i \in 1..Len(v.l) |-> v.l[i].s]
OptFloat(v) == IF v.t = "null" THEN {} ELSE {v.n}

\* the Decision returned when field extraction fails
MinimalDecision ==
    PlannerDecision("need_more_info", <<"unknown">>, {}, 0,
                    "Failed to parse requirements",
                    <<"Could you provide more details about what you're looking for?">>)

\* the try block of _parse_decision: Raise where a statement of it raises
ParseFields(result, raw_input) ==
    IF ~IsDict(result) THEN Raise
    ELSE
    LET req_data == Get(result.o, "extracted_requirements", JObj(EmptyMap))
    IN  IF ~IsDict(req_data) THEN Raise
        ELSE
        LET budget_data == Get(req_data.o, "budget", JNull)
            builds_budget == Truthy(budget_data) /\ IsDict(budget_data)
                             /\ Truthy(Get(budget_data.o, "max", JNull))
            b_min == Get(budget_data.o, "min", JNull)
            b_max == Get(budget_data.o, "max", JNum(0))
            b_flexible == Get(budget_data.o, "flexible", JBool(FALSE))
            budget_ok == IsOptFloat(b_min) /\ IsFloat(b_max) /\ IsBool(b_flexible)
                         /\ validate_max(b_max.n) /\ validate_min(OptFloat(b_min))
            budget == IF builds_budget
                      THEN {BudgetConstraint(OptFloat(b_min), b_max.n, Bool(b_flexible))}
                      ELSE {}
            product_category == Get(req_data.o, "product_category", JStr(""))
            use_case == Get(req_data.o, "use_case", JStr(""))
            must_have_specs == Get(req_data.o, "must_have_specs", JObj(EmptyMap))
            nice_to_have_specs == Get(req_data.o, "nice_to_have_specs", JObj(EmptyMap))
            deal_breakers == Get(req_data.o, "deal_breakers", JList(<<>>))
            preferred_brands == Get(req_data.o, "preferred_brands", JList(<<>>))
            excluded_brands == Get(req_data.o, "excluded_brands", JList(<<>>))
            completeness_score == Get(result.o, "completeness_score", JNum(0))
            requirements_ok ==
                /\ IsStr(product_category) /\ IsStr(use_case)
                /\ IsDict(must_have_specs) /\ IsDict(nice_to_have_specs)
                /\ IsStrList(deal_breakers) /\ IsStrList(preferred_brands)
                /\ IsStrList(excluded_brands) /\ IsFloat(completeness_score)
            status == Get(result.o, "status", JStr("need_more_info"))
            missing_fields == Get(result.o, "missing_fields", JList(<<>>))
            reasoning == Get(result.o, "reasoning", JStr(""))
            suggested_questions == Get(result.o, "suggested_questions", JList(<<>>))
            decision_ok ==
                /\ IsStr(status) /\ IsStrList(missing_fields)
                /\ IsStr(reasoning) /\ IsStrList(suggested_questions)
        IN  IF (builds_budget /\ ~budget_ok) \/ ~requirements_ok \/ ~decision_ok
            THEN Raise
            ELSE Return(PlannerDecision(
                     status.s, StrList(missing_fields),
                     {UserRequirements(
                          product_category.s, budget, use_case.s,
                          must_have_specs.o, nice_to_have_specs.o,
                          StrList(deal_breakers), StrList(preferred_brands),
                          StrList(excluded_brands), <<>>,
                          completeness_score.n, raw_input)},
                     completeness_score.n, reasoning.s,
                     StrList(suggested_questions)))

\* _parse_decision without its except clause
_parse_decision_NoExcept(result, raw_input) == ParseFields(result, raw_input)

\* _parse_decision: on any exception of the try block, the minimal Decision
_parse_decision(result, raw_input) ==
    LET parsed == ParseFields(result, raw_input)
    IN  IF parsed.raised THEN Return(MinimalDecision) ELSE parsed

\* analyze falling back to the minimal Decision when the call raises
analyze_Fallback(reply, user_input) ==
    LET result == structured_output(reply)
    IN  IF result.raised THEN Return(MinimalDecision)
        ELSE _parse_decision(result.value, user_input)

\* PlannerAgent.analyze: every exception of the try block (the backend's, that
\* of _extract_json, that of _parse_decision) is re-raised as RuntimeError
analyze(reply, user_input) ==
    LET result == structured_output(reply)
    IN  IF result.raised THEN Raise
        ELSE _parse_decision(result.value, user_input)

\* the orders list(set(...)) can give a list without duplicates of these elements
ListsOfSet(S) ==
    {l \in [1..Cardinality(S) -> S] : \A i, j \in DOMAIN l : l[i] = l[j] => i = j}

Elements(l) == {l[i] : i \in DOMAIN l}

\* the elements common to both lists instead of their union
UnionList_Intersection(a, b) == ListsOfSet(Elements(a) \cap Elements(b))

\* list(set(a + b)): the lists it can give
UnionList(a, b) == ListsOfSet(Elements(a \o b))

\* a or b on Python values whose falsy value is `empty`
Or(a, b, empty) == IF a # empty THEN a ELSE b

Max(a, b) == IF a >= b THEN a ELSE b

\* a merge that takes the new score instead of the larger one
_merge_requirements_NewScore(existing, new) ==
    {UserRequirements(
         Or(new.product_category, existing.product_category, ""),
         Or(new.budget, existing.budget, {}),
         Or(new.use_case, existing.use_case, ""),
         DictUnion(existing.must_have_specs, new.must_have_specs),
         DictUnion(existing.nice_to_have_specs, new.nice_to_have_specs),
         deal_breakers, preferred_brands, excluded_brands,
         Or(new.priorities, existing.priorities, <<>>),
         new.completeness_score,
         Strip(existing.raw_input \o "\n" \o new.raw_input)) :
     deal_breakers \in UnionList(existing.deal_breakers, new.deal_breakers),
     preferred_brands \in UnionList(existing.preferred_brands, new.preferred_brands),
     excluded_brands \in UnionList(existing.excluded_brands, new.excluded_brands)}

\* _merge_requirements: the set of values it can return, one per iteration
\* order of the three set(...) expressions
_merge_requirements(existing, new) ==
    {UserRequirements(
         Or(new.product_category, existing.product_category, ""),
         Or(new.budget, existing.budget, {}),
         Or(new.use_case, existing.use_case, ""),
         DictUnion(existing.must_have_specs, new.must_have_specs),
         DictUnion(existing.nice_to_have_specs, new.nice_to_have_specs),
         deal_breakers, preferred_brands, excluded_brands,
         Or(new.priorities, existing.priorities, <<>>),
         Max(existing.completeness_score, new.completeness_score),
         Strip(existing.raw_input \o "\n" \o new.raw_input)) :
     deal_breakers \in UnionList(existing.deal_breakers, new.deal_breakers),
     preferred_brands \in UnionList(existing.preferred_brands, new.preferred_brands),
     excluded_brands \in UnionList(existing.excluded_brands, new.excluded_brands)}

\* update_requirements returning the new extraction unmerged
update_requirements_NoMerge(current, new_info, reply) ==
    LET d == analyze(reply, new_info)
    IN  IF d.raised THEN {Raise}
        ELSE IF d.value.requirements # {}
             THEN {Return(n) : n \in d.value.requirements}
             ELSE {Return(current)}

\* update_requirements: the values it can return, or Raise when analyze raises
update_requirements(current, new_info, reply) ==
    LET d == analyze(reply, new_info)
    IN  IF d.raised THEN {Raise}
        ELSE IF d.value.requirements # {}
             THEN {Return(m) : m \in UNION {_merge_requirements(current, n) :
                                            n \in d.value.requirements}}
             ELSE {Return(current)}

----------------------------------------------------------------------------
(* agents/collector.py *)

key_phrases ==
    <<"what type", "which type", "what kind",
      "budget", "price", "cost",
      "use case", "how will you use", "what will you use">>

_is_similar_question(q1, q2) ==
    \E q1_lower \in {Lower(q1)}, q2_lower \in {Lower(q2)} :
        \E i \in DOMAIN key_phrases :
            Contains(q1_lower, key_phrases[i]) /\ Contains(q2_lower, key_phrases[i])

\* a fallback that looks at the use case before the budget
FallbackQuestion_UseCaseFirst(reqs) ==
    IF reqs.use_case = "" THEN "How do you plan to use this product?"
    ELSE IF reqs.budget = {} THEN "What's your budget for this purchase?"
    ELSE IF DOMAIN reqs.must_have_specs = {}
         THEN "Are there any specific features or specs you need?"
    ELSE "Could you tell me more about what you're looking for?"

\* the fallback of _generate_question when the LLM call raises
FallbackQuestion(reqs) ==
    IF reqs.budget = {} THEN "What's your budget for this purchase?"
    ELSE IF reqs.use_case = "" THEN "How do you plan to use this product?"
    ELSE IF DOMAIN reqs.must_have_specs = {}
         THEN "Are there any specific features or specs you need?"
    ELSE "Could you tell me more about what you're looking for?"

\* the suggested questions that are similar to no asked question (lines 99-104)
FreshSuggestions(suggested_questions, asked) ==
    {i \in DOMAIN suggested_questions :
        ~\E j \in DOMAIN asked :
            _is_similar_question(suggested_questions[i], asked[j])}

\* a selector that asks the backend for a question whatever the suggestions are
CollectorCalls_Always(suggested_questions, asked) == 1

\* the number of LLM calls of _generate_question: none when a suggested
\* question is returned, one otherwise
CollectorCalls(suggested_questions, asked) ==
    IF FreshSuggestions(suggested_questions, asked) # {} THEN 0 ELSE 1

\* a selector that returns the first suggested question whatever was asked
_generate_question_NoFilter(suggested_questions, reqs, asked, reply) ==
    LET question == call(reply)
    IN  IF suggested_questions # <<>> THEN suggested_questions[1]
        ELSE IF question.raised THEN FallbackQuestion(reqs)
        ELSE Strip(question.value)

\* _generate_question; reply is what the backend answers if it is called
_generate_question(suggested_questions, reqs, asked, reply) ==
    LET fresh == FreshSuggestions(suggested_questions, asked)
        question == call(reply)
    IN  IF fresh # {}
        THEN suggested_questions[CHOOSE i \in fresh : \A j \in fresh : i <= j]
        ELSE IF question.raised THEN FallbackQuestion(reqs)
        ELSE Strip(question.value)

----------------------------------------------------------------------------
(* The collaborators: what the LLM backend and the user can answer *)

JStrList(l) == JList([i \in DOMAIN l |-> JStr(l[i])])

\* a reply object with every key of the schema
Extraction(status, score, category, budget, use_case, specs, missing, questions) ==
    JObj(("status" :> JStr(status))
         @@ ("missing_fields" :> JStrList(missing))
         @@ ("extracted_requirements" :>
                JObj(("product_category" :> JStr(category))
                     @@ ("budget" :> budget)
                     @@ ("use_case" :> JStr(use_case))
                     @@ ("must_have_specs" :> JObj(specs))
                     @@ ("nice_to_have_specs" :> JObj(EmptyMap))
                     @@ ("deal_breakers" :> JList(<<>>))
                     @@ ("preferred_brands" :> JList(<<>>))
                     @@ ("excluded_brands" :> JList(<<>>))))
         @@ ("completeness_score" :> JNum(score))
         @@ ("reasoning" :> JStr(""))
         @@ ("suggested_questions" :> JStrList(questions)))

BudgetMax(n) == JObj(("max" :> JNum(n)))
Gpu == ("gpu" :> JStr("RTX 4060"))
TopicQuestions == <<"What is your budget range?", "How will you use it?">>

\* well-shaped extractions
Extractions ==
    {Extraction("need_more_info", 0, "", JNull, "", EmptyMap,
                <<"product_category", "budget">>, <<>>),
     Extraction("need_more_info", 30, "gaming laptop", JNull, "", EmptyMap,
                <<"budget">>, TopicQuestions),
     Extraction("ready", 80, "", BudgetMax(1500), "", EmptyMap, <<>>, <<>>),
     Extraction("ready", 80, "gaming laptop", BudgetMax(1500), "gaming", EmptyMap,
                <<>>, <<>>),
     Extraction("need_more_info", 75, "gaming laptop", BudgetMax(1500), "", Gpu,
                <<>>, TopicQuestions),
     Extraction("need_more_info", 75, "TV", BudgetMax(1500), "gaming", EmptyMap,
                <<"use_case">>, <<>>),
     Extraction("ready", 30, "gaming laptop", JNull, "gaming", EmptyMap, <<>>, <<>>)}

\* replies to PlannerAgent's structured_output call: every well-shaped
\* extraction, one in a code fence, one object of the wrong shape, a text
\* without JSON, and the backend's error
PlannerReplies ==
    {ReplyText(<<Json(v)>>) : v \in Extractions}
    \cup {ReplyText(<<Prose, Space, FenceJson, Space,
                      Json(Extraction("ready", 80, "gaming laptop", BudgetMax(1500),
                                      "gaming", EmptyMap, <<>>, <<>>)),
                      Space, Fence>>),
          ReplyText(<<Json(JObj(("status" :> JNum(1))))>>),
          ReplyText(<<Prose>>),
          ApiError}

\* replies to CollectorAgent's call
CollectorReplies ==
    {[kind |-> "text", text |-> " Which features matter most to you?\n"], ApiError}

\* what the user can type at the prompt
Answers == {"", "quit", "QUIT", "Exit", "cancel", "under $1500"}

InitialInputs == {"gaming laptop"}

\* how _parse_decision ended in an analyze call on this reply: not reached
\* when the call raised before it, its except clause, or the fields parsed
ParseClass(reply, user_input) ==
    LET result == structured_output(reply)
    IN  IF result.raised THEN "not_reached"
        ELSE IF ParseFields(result.value, user_input).raised THEN "fallback"
        ELSE "fields"

\* how the backend's reply to structured_output was handled
ReplyClass(reply) ==
    IF call(reply).raised THEN "backend_error"
    ELSE IF _extract_json(reply.text).raised THEN "unparseable"
    ELSE "json"

----------------------------------------------------------------------------
(* orchestrator.py: WorkflowOrchestrator._gather_requirements *)

max_iterations == 5

\* the score from which the loop stops asking after the first round (0.7)
ForceScore == 70

\* the loop condition off by one, and without the cap
LoopCondition_OffByOne(d, i) == d.status = "need_more_info" /\ i <= max_iterations

LoopCondition_NoCap(d, i) == d.status = "need_more_info"

\* a loop that keeps asking until the cap whatever the Decision's status
LoopCondition_IgnoresStatus(d, i) == i < max_iterations

\* the condition of the while loop
LoopCondition(d, i) == d.status = "need_more_info" /\ i < max_iterations

\* the break taken from the first round on
ForcedReady_Early(d, i, reqs) ==
    i >= 1 /\ d.status = "need_more_info" /\ reqs.completeness_score >= ForceScore

\* the break taken one round late
ForcedReady_Late(d, i, reqs) ==
    i > 2 /\ d.status = "need_more_info" /\ reqs.completeness_score >= ForceScore

\* the break at the end of the loop body
ForcedReady(d, i, reqs) ==
    i > 1 /\ d.status = "need_more_info" /\ reqs.completeness_score >= ForceScore

\* the cancel test without lower()
IsCancel_CaseSensitive(answer) == answer = "" \/ answer \in {"quit", "exit", "cancel"}

IsCancel(answer) == answer = "" \/ Lower(answer) \in {"quit", "exit", "cancel"}

\* the context handed to the re-analysis
full_context(history) == Join("\n\n", [i \in DOMAIN history |-> "User: " \o history[i]])

\* a Decision without requirements empties the running requirement
RequirementsOr_Reset(d, fallback) ==
    IF d.requirements # {} THEN CHOOSE r \in d.requirements : TRUE
    ELSE EmptyRequirements("")

\* decision.requirements or fallback
RequirementsOr(d, fallback) ==
    IF d.requirements # {} THEN CHOOSE r \in d.requirements : TRUE ELSE fallback

Known(reqs) ==
    [completeness_score |-> reqs.completeness_score,
     product_category   |-> reqs.product_category # "",
     budget             |-> reqs.budget # {},
     use_case           |-> reqs.use_case # "",
     must_have_specs    |-> DOMAIN reqs.must_have_specs]

ZeroVerdict(d) == d.status = "need_more_info" /\ d.confidence = 0

\* line 137
CancelMessage == "Requirement gathering cancelled"

\* lines 178-179
FailureMessages(reqs) ==
    <<"Unable to gather complete requirements",
      "Missing: " \o Join(", ", get_missing_fields(reqs))>>

NoDecision == PlannerDecision("", <<>>, {}, 0, "", <<>>)

\* the state of WorkflowOrchestrator.run around _gather_requirements
run_vars == <<runs, report, collaborator_calls>>

\* a gather that does not record the question
Track_Nothing(asked, question) == asked

\* gather, line 53: self.asked_questions.append(question)
Track(asked, question) == Append(asked, question)

Init ==
    /\ pc = "start"
    /\ initial_input \in InitialInputs
    /\ collector_llm \in CollectorReplies
    /\ conversation_history = <<>>
    /\ decision = NoDecision
    /\ requirements = EmptyRequirements("")
    /\ iteration = 0
    /\ user_response = ""
    /\ asked_questions = <<>>
    /\ outcome = "running"
    /\ returned = {}
    /\ last_llm = "none"
    /\ analyze_calls = 0
    /\ all_zero = TRUE
    /\ before_round = Known(EmptyRequirements(""))
    /\ last_answer = {}
    /\ collector_calls = 0
    /\ reads = 0
    /\ printed = <<>>
    /\ shown = <<>>
    /\ last_parse = "none"
    /\ runs = 1
    /\ report = {}
    /\ collaborator_calls = <<>>
    /\ arg = JNull
    /\ ret = {}

\* _gather_requirements ends: its locals are gone, the caller gets `value`
\* (how = "raised": an exception instead of a value)
Leave(how, value) ==
    /\ pc' = "done"
    /\ outcome' = how
    /\ returned' = value
    /\ conversation_history' = <<>>
    /\ decision' = NoDecision
    /\ requirements' = EmptyRequirements("")
    /\ iteration' = 0
    /\ user_response' = ""
    /\ before_round' = Known(EmptyRequirements(""))

\* lines 98-113: the initial analysis
InitialAnalyze ==
    /\ pc = "start"
    /\ \E reply \in PlannerReplies :
        LET d == analyze(reply, initial_input)
        IN  /\ last_llm' = ReplyClass(reply)
            /\ last_parse' = ParseClass(reply, initial_input)
            /\ IF d.raised
               THEN Leave("raised", {}) /\ UNCHANGED all_zero
               ELSE /\ decision' = d.value
                    /\ requirements' =
                         RequirementsOr(d.value, EmptyRequirements(initial_input))
                    /\ all_zero' = ZeroVerdict(d.value)
                    /\ pc' = "loop"
                    /\ conversation_history' = <<initial_input>>
                    /\ UNCHANGED <<outcome, returned, iteration, user_response,
                                   before_round>>
    /\ analyze_calls' = analyze_calls + 1
    /\ UNCHANGED <<initial_input, collector_llm, asked_questions, last_answer,
                   collector_calls, reads, printed, shown, run_vars, arg, ret>>

\* lines 115-134 and collector.gather up to the prompt: the question is chosen,
\* recorded and shown
AskQuestion ==
    /\ pc = "loop"
    /\ LoopCondition(decision, iteration)
    /\ iteration' = iteration + 1
    /\ LET question == _generate_question(decision.suggested_questions,
                                          requirements, asked_questions,
                                          collector_llm)
       IN  /\ asked_questions' = Track(asked_questions, question)
           /\ shown' = Append(shown, question)
    /\ collector_calls' =
         collector_calls + CollectorCalls(decision.suggested_questions, asked_questions)
    /\ before_round' = Known(requirements)
    /\ pc' = "await_answer"
    /\ UNCHANGED <<initial_input, collector_llm, conversation_history, decision,
                   requirements, user_response, outcome, returned, last_llm,
                   analyze_calls, all_zero, last_answer, reads, printed,
                   last_parse, run_vars, arg, ret>>

\* get_input returns, lines 136-141: cancellation or the answer joins the history
ReadAnswer ==
    /\ pc = "await_answer"
    /\ \E answer \in Answers :
        /\ last_answer' = {answer}
        /\ IF IsCancel(answer)
           THEN Leave("cancelled", {}) /\ printed' = <<CancelMessage>>
           ELSE
             /\ UNCHANGED printed
             /\ user_response' = answer
             /\ pc' = "update"
             /\ conversation_history' = Append(conversation_history, answer)
             /\ UNCHANGED <<decision, requirements, iteration, outcome, returned,
                            before_round>>
    /\ reads' = reads + 1
    /\ UNCHANGED <<initial_input, collector_llm, asked_questions, last_llm,
                   analyze_calls, all_zero, collector_calls, shown, last_parse,
                   run_vars, arg, ret>>

\* line 152: planner.update_requirements
UpdateRequirements ==
    /\ pc = "update"
    /\ \E reply \in PlannerReplies :
        \E r \in update_requirements(requirements, user_response, reply) :
            /\ last_llm' = ReplyClass(reply)
            /\ last_parse' = ParseClass(reply, user_response)
            /\ IF r.raised
               THEN Leave("raised", {}) /\ UNCHANGED all_zero
               ELSE /\ requirements' = r.value
                    /\ all_zero' = (all_zero
                                    /\ ZeroVerdict(analyze(reply, user_response).value))
                    /\ pc' = "reanalyze"
                    /\ UNCHANGED <<conversation_history, decision, iteration,
                                   user_response, outcome, returned, before_round>>
    /\ analyze_calls' = analyze_calls + 1
    /\ UNCHANGED <<initial_input, collector_llm, asked_questions, last_answer,
                   collector_calls, reads, printed, shown, run_vars, arg, ret>>

\* lines 158-174: the re-analysis replaces the requirements, then the break
Reanalyze ==
    /\ pc = "reanalyze"
    /\ LET context == full_context(conversation_history)
       IN  \E reply \in PlannerReplies :
        LET d == analyze(reply, context)
        IN  /\ last_llm' = ReplyClass(reply)
            /\ last_parse' = ParseClass(reply, context)
            /\ IF d.raised
               THEN Leave("raised", {}) /\ UNCHANGED all_zero
               ELSE /\ decision' = d.value
                    /\ requirements' = RequirementsOr(d.value, requirements)
                    /\ all_zero' = (all_zero /\ ZeroVerdict(d.value))
                    /\ pc' = IF ForcedReady(d.value, iteration, requirements')
                             THEN "final" ELSE "loop"
                    /\ UNCHANGED <<conversation_history, iteration, user_response,
                                   outcome, returned, before_round>>
    /\ analyze_calls' = analyze_calls + 1
    /\ UNCHANGED <<initial_input, collector_llm, asked_questions, last_answer,
                   collector_calls, reads, printed, shown, run_vars, arg, ret>>

\* the return without the final check
FinalCheck_NoGate ==
    /\ \/ pc = "final"
       \/ pc = "loop" /\ ~LoopCondition(decision, iteration)
    /\ Leave("success", {requirements})
    /\ UNCHANGED <<initial_input, collector_llm, asked_questions, last_llm,
                   analyze_calls, all_zero, last_answer, collector_calls, reads,
                   printed, shown, last_parse, run_vars, arg, ret>>

\* lines 176-189: the final check and the return
FinalCheck ==
    /\ \/ pc = "final"
       \/ pc = "loop" /\ ~LoopCondition(decision, iteration)
    /\ IF ~is_complete(requirements)
       THEN Leave("failed", {}) /\ printed' = FailureMessages(requirements)
       ELSE Leave("success", {requirements}) /\ UNCHANGED printed
    /\ UNCHANGED <<initial_input, collector_llm, asked_questions, last_llm,
                   analyze_calls, all_zero, last_answer, collector_calls, reads,
                   shown, last_parse, run_vars, arg, ret>>

Next ==
    \/ InitialAnalyze
    \/ AskQuestion
    \/ ReadAnswer
    \/ UpdateRequirements
    \/ Reanalyze
    \/ FinalCheck

Spec == Init /\ [][Next]_vars

\* every call of a collaborator returns, so the loop keeps being scheduled
LiveSpec == Spec /\ WF_vars(Next)

----------------------------------------------------------------------------
(* orchestrator.py: WorkflowOrchestrator.run around _gather_requirements *)

\* the number of run calls followed on one orchestrator
MaxRuns == 2

\* a further run is followed when the earlier ones asked at most this many
\* questions, and for this many rounds of its loop
MaxCarried == 1

MaxLaterRounds == 1

\* a call to a collaborator of phases 2 and 3, with the value of the local
\* `requirements` it is given ({} = None)
Research(value) == [to |-> "researcher", requirements |-> value]
Analysis(value) == [to |-> "analyzer", requirements |-> value]

\* what run returns when no products were found, and the report of the analyzer
NoResultsReport == "# Product Research Report - No Results"
AnalyzerReport == "# Product Research Report"

\* lines 79-83: run's except clause re-raises when Config.DEBUG is set and
\* returns "" otherwise
Except(debug) == IF debug THEN Raise ELSE Return("")

\* a run that goes on to phase 2 whatever phase 1 returned
Usable_Always(value) == TRUE

\* line 56: requirements and requirements.is_complete()
Usable(value) == value # {} /\ \A r \in value : is_complete(r)

\* lines 54-83: what run does once _gather_requirements has ended. The
\* researcher finds products, finds none or raises; the analyzer (with the
\* saving of its report) returns or raises.
FinishRun ==
    /\ pc = "done" /\ report = {}
    /\ \E debug \in BOOLEAN :
        IF outcome = "raised"
        THEN /\ report' = {Except(debug)}
             /\ printed' = Append(printed, "Workflow error")
             /\ UNCHANGED collaborator_calls
        ELSE IF ~Usable(returned)
        THEN /\ report' = {Return("")}
             /\ printed' = Append(printed, "Failed to gather complete requirements")
             /\ UNCHANGED collaborator_calls
        ELSE \/ /\ collaborator_calls' = <<Research(returned)>>
                /\ report' = {Except(debug)}
                /\ printed' = Append(printed, "Workflow error")
             \/ /\ collaborator_calls' = <<Research(returned)>>
                /\ report' = {Return(NoResultsReport)}
                /\ printed' = Append(printed,
                                     "No products found matching your requirements")
             \/ /\ collaborator_calls' = <<Research(returned), Analysis(returned)>>
                /\ report' \in {{Return(AnalyzerReport)}, {Except(debug)}}
                /\ printed' = IF report' = {Return(AnalyzerReport)} THEN printed
                              ELSE Append(printed, "Workflow error")
    /\ UNCHANGED <<pc, initial_input, collector_llm, conversation_history, decision,
                   requirements, iteration, user_response, asked_questions, outcome,
                   returned, last_llm, analyze_calls, all_zero, before_round,
                   last_answer, collector_calls, reads, shown, last_parse, runs,
                   arg, ret>>

\* run is called again on the same orchestrator: its agents keep their fields,
\* the locals and what is recorded about one run start afresh
RunAgain ==
    /\ pc = "done" /\ report # {}
    /\ runs < MaxRuns /\ Len(asked_questions) <= MaxCarried
    /\ runs' = runs + 1
    /\ pc' = "start"
    /\ initial_input' \in InitialInputs
    /\ outcome' = "running"
    /\ returned' = {}
    /\ report' = {}
    /\ collaborator_calls' = <<>>
    /\ last_llm' = "none"
    /\ analyze_calls' = 0
    /\ all_zero' = TRUE
    /\ last_answer' = {}
    /\ collector_calls' = 0
    /\ reads' = 0
    /\ printed' = <<>>
    /\ shown' = <<>>
    /\ last_parse' = "none"
    /\ UNCHANGED <<collector_llm, conversation_history, decision, requirements,
                   iteration, user_response, asked_questions, before_round,
                   arg, ret>>

NextRun ==
    \/ Next /\ (runs > 1 => iteration' <= MaxLaterRounds)
    \/ FinishRun
    \/ RunAgain

SpecRun == Init /\ [][NextRun]_vars

----------------------------------------------------------------------------
(* Function-level runs: one call of a pure function on a drawn argument *)

\* the loop is not running
Idle ==
    /\ pc = "idle"
    /\ initial_input = ""
    /\ collector_llm = ApiError
    /\ conversation_history = <<>>
    /\ decision = NoDecision
    /\ requirements = EmptyRequirements("")
    /\ iteration = 0
    /\ user_response = ""
    /\ asked_questions = <<>>
    /\ outcome = "running"
    /\ returned = {}
    /\ last_llm = "none"
    /\ analyze_calls = 0
    /\ all_zero = TRUE
    /\ before_round = Known(EmptyRequirements(""))
    /\ last_answer = {}
    /\ collector_calls = 0
    /\ reads = 0
    /\ printed = <<>>
    /\ shown = <<>>
    /\ last_parse = "none"
    /\ runs = 0
    /\ report = {}
    /\ collaborator_calls = <<>>

loop_vars == <<pc, initial_input, collector_llm, conversation_history, decision,
               requirements, iteration, user_response, asked_questions, outcome,
               returned, last_llm, analyze_calls, all_zero, before_round,
               last_answer, collector_calls, reads, printed, shown, last_parse,
               runs, report, collaborator_calls>>

\* a reply of the schema's shape, every key present
BaseReply ==
    Extraction("ready", 80, "gaming laptop",
               JObj(("min" :> JNum(1000)) @@ ("max" :> JNum(1500))
                    @@ ("flexible" :> JBool(TRUE))),
               "gaming", Gpu, <<"budget">>, TopicQuestions)

\* values put where the schema expects something else
WrongValues ==
    {JNull, JNum(0), JNum(1), JNum(-5), JStr("x"), JList(<<>>),
     JList(<<JNum(1)>>), JObj(EmptyMap)}

Without(o, key) == [k \in DOMAIN o \ {key} |-> o[k]]

\* BaseReply with one key of mapping o (top level, extracted_requirements or
\* budget) dropped or given a wrong value
Variants(o) ==
    {Without(o, key) : key \in DOMAIN o}
    \cup {[o EXCEPT ![key] = v] : key \in DOMAIN o, v \in WrongValues}

BaseRequirements == BaseReply.o["extracted_requirements"].o

ParseInputs ==
    {BaseReply} \cup WrongValues
    \cup {JObj(o) : o \in Variants(BaseReply.o)}
    \cup {JObj([BaseReply.o EXCEPT !["extracted_requirements"] = JObj(r)]) :
            r \in Variants(BaseRequirements)}
    \cup {JObj([BaseReply.o EXCEPT !["extracted_requirements"] =
                  JObj([BaseRequirements EXCEPT !["budget"] = JObj(b)])]) :
            b \in Variants(BaseRequirements["budget"].o)}

InitParse == Idle /\ arg \in ParseInputs /\ ret = {}

\* one call of PlannerAgent._parse_decision
ParseDecision ==
    /\ ret = {}
    /\ ret' = {_parse_decision(arg, "gaming laptop")}
    /\ UNCHANGED <<loop_vars, arg>>

NextParse == ParseDecision

SpecParse == InitParse /\ [][NextParse]_vars

----------------------------------------------------------------------------
(* UserRequirements.is_complete and get_missing_fields on their own *)

Categories == {"", "T", "TV", "TVs", "gaming laptop"}

\* budgets a BudgetConstraint can hold: the validators admit max > 0, min >= 0
Budgets ==
    {{}, {BudgetConstraint({}, 1500, FALSE)}, {BudgetConstraint({0}, 1, TRUE)}}

UseCases == {"", "gaming"}

SpecMaps == {EmptyMap, Gpu}

Scores == {0, 69, 70, 71, 100}

RequirementInputs ==
    {UserRequirements(c, b, u, m, EmptyMap, <<>>, <<>>, <<>>, <<>>, sc, "") :
        c \in Categories, b \in Budgets, u \in UseCases, m \in SpecMaps,
        sc \in Scores}

InitReq == Idle /\ arg \in RequirementInputs /\ ret = {}

\* one call of is_complete and one of get_missing_fields on the same object
CheckRequirement ==
    /\ ret = {}
    /\ ret' = {[is_complete |-> is_complete(arg),
                missing     |-> get_missing_fields(arg)]}
    /\ UNCHANGED <<loop_vars, arg>>

NextReq == CheckRequirement

SpecReq == InitReq /\ [][NextReq]_vars

----------------------------------------------------------------------------
(* PlannerAgent._merge_requirements on its own *)

\* product_category, budget, use_case and priorities of a requirement
MergeScalars ==
    {<<"", {}, "", <<>>>>,
     <<"laptop", {BudgetConstraint({}, 1500, FALSE)}, "gaming", <<"price">>>>,
     <<"TV", {BudgetConstraint({0}, 1, TRUE)}, "movies", <<"weight", "price">>>>}

MergeMaps ==
    {EmptyMap, Gpu, ("gpu" :> JStr("RTX 3050")) @@ ("ram" :> JStr("16GB"))}

\* lists as the LLM's JSON can hold them: with a repeated element, in any order
MergeLists == {<<>>, <<"glossy">>, <<"glossy", "glossy">>, <<"heavy", "glossy">>}

MergeScores == {0, 80}

MergeRawInputs == {"", "gaming laptop"}

MergeRequirements ==
    {UserRequirements(sc[1], sc[2], sc[3], m, m, l, l, l, sc[4], score, raw) :
        sc \in MergeScalars, m \in MergeMaps, l \in MergeLists,
        score \in MergeScores, raw \in MergeRawInputs}

InitMerge ==
    /\ Idle
    /\ arg \in [existing : MergeRequirements, new : MergeRequirements]
    /\ ret = {}

\* one call of _merge_requirements
Merge ==
    /\ ret = {}
    /\ \E merged \in _merge_requirements(arg.existing, arg.new) : ret' = {merged}
    /\ UNCHANGED <<loop_vars, arg>>

NextMerge == Merge

SpecMerge == InitMerge /\ [][NextMerge]_vars

----------------------------------------------------------------------------
(* CollectorAgent._generate_question on its own *)

\* questions a Decision can suggest
SuggestedPool ==
    {"What is your budget range?", "How will you use it?",
     "What type of laptop do you want?", "Any brand you prefer?"}

\* questions the collector can have asked before
AskedPool ==
    {"What's your budget?", "What's your budget for this purchase?",
     "HOW WILL YOU USE the laptop?", "Which type do you need?",
     "Any brand you prefer?"}

\* the sequences of at most 2 elements of S
UpToTwo(S) == {<<>>} \cup {<<a>> : a \in S} \cup {<<a, b>> : a \in S, b \in S}

\* running requirements the selector can be handed: what is known so far
SelectRequirements ==
    {UserRequirements("gaming laptop", b, u, m, EmptyMap, <<>>, <<>>, <<>>, <<>>,
                      30, "gaming laptop") :
        b \in {{}, {BudgetConstraint({}, 1500, FALSE)}}, u \in UseCases,
        m \in SpecMaps}

InitSelect ==
    /\ Idle
    /\ arg \in [suggested_questions : UpToTwo(SuggestedPool),
                 asked_questions     : UpToTwo(AskedPool),
                 requirements        : SelectRequirements,
                 reply               : CollectorReplies]
    /\ ret = {}

\* one call of _generate_question
GenerateQuestion ==
    /\ ret = {}
    /\ ret' = {_generate_question(arg.suggested_questions, arg.requirements,
                                  arg.asked_questions, arg.reply)}
    /\ UNCHANGED <<loop_vars, arg>>

NextSelect == GenerateQuestion

SpecSelect == InitSelect /\ [][NextSelect]_vars

----------------------------------------------------------------------------
(* CollectorAgent._is_similar_question on its own *)

\* questions of either origin, some naming a topic by another word of it
QuestionPool ==
    SuggestedPool \cup AskedPool
    \cup {"What price range suits you?", "How much may it cost?",
          "WHAT KIND of laptop?", "What is the use case?"}

InitSimilar == Idle /\ arg \in [q1 : QuestionPool, q2 : QuestionPool] /\ ret = {}

\* one call of _is_similar_question
IsSimilarQuestion ==
    /\ ret = {}
    /\ ret' = {_is_similar_question(arg.q1, arg.q2)}
    /\ UNCHANGED <<loop_vars, arg>>

NextSimilar == IsSimilarQuestion

SpecSimilar == InitSimilar /\ [][NextSimilar]_vars

----------------------------------------------------------------------------
(* Properties *)

\* the loop has left its body and the final check is the next statement
AtFinalCheck ==
    pc = "final" \/ (pc = "loop" /\ ~LoopCondition(decision, iteration))

\* C1: a Requirement returned as success satisfies is_complete, and a final
\* check on a requirement that fails is_complete returns None, not an exception.
C1_SuccessIsComplete ==
    [][/\ outcome' = "success" =>
            returned' # {} /\ \A r \in returned' : is_complete(r)
       /\ (AtFinalCheck /\ ~is_complete(requirements)) =>
            outcome' = "failed" /\ returned' = {}]_vars

C1_Witness == outcome = "success" /\ returned # {}

\* C2: when every Decision is need_more_info with score 0.0 and the user keeps
\* answering, the loop returns failure after exactly 5 questions, and no run
\* starts a 6th iteration.
C2_ExhaustedAfterFive ==
    /\ iteration <= 5
    /\ (all_zero /\ pc = "loop" /\ iteration < 5) => ~AtFinalCheck
    /\ (all_zero /\ outcome \in {"success", "failed"}) =>
          outcome = "failed" /\ Len(asked_questions) = 5 /\ returned = {}

C2_Witness == all_zero /\ outcome = "failed" /\ Len(asked_questions) = 5

\* C3: whatever the extractor and the user answer, the loop ends, and it never
\* asks more than 5 questions.
C3_TerminatesWithinFive ==
    /\ [](Len(asked_questions) <= 5 /\ iteration <= 5)
    /\ <>(pc = "done")

C3_Witness == pc = "done" /\ Len(asked_questions) = 5

CancelWord(answer) == answer = "" \/ Lower(answer) \in {"quit", "exit", "cancel"}

\* C4: an empty answer or quit/exit/cancel in any letter case ends the loop as
\* cancelled in that very step: no analyze call, no change of the requirements
\* and no question follows it.
C4_CancelShortCircuit ==
    [][\A answer \in last_answer' :
          CancelWord(answer) =>
              /\ pc = "await_answer"
              /\ pc' = "done" /\ outcome' = "cancelled" /\ returned' = {}
              /\ analyze_calls' = analyze_calls
              /\ asked_questions' = asked_questions]_vars

C4_Witness == outcome = "cancelled" /\ last_answer = {"QUIT"} /\ analyze_calls = 3

\* C5: at the end of round 2 or later, a need_more_info Decision with a
\* running score >= 0.7 sends the loop to the final check without another
\* question, and that check returns success iff is_complete holds.
C5_ForcedReady ==
    [][/\ (/\ pc = "reanalyze" /\ outcome' = "running" /\ iteration >= 2
           /\ decision'.status = "need_more_info"
           /\ requirements'.completeness_score >= 70) => pc' = "final"
       /\ pc = "final" =>
            /\ pc' = "done"
            /\ outcome' = "success" <=> is_complete(requirements)
            /\ outcome' \in {"success", "failed"}
            /\ asked_questions' = asked_questions
            /\ analyze_calls' = analyze_calls]_vars

C5_Witness ==
    /\ pc = "final" /\ iteration = 2 /\ decision.status = "need_more_info"
    /\ requirements.completeness_score = 75 /\ is_complete(requirements)

\* C6: when the backend raises during an extraction, analyze raises and the
\* error leaves _gather_requirements, at whichever of its analyze calls.
C6_BackendErrorPropagates ==
    last_llm = "backend_error" =>
        pc = "done" /\ outcome = "raised" /\ returned = {}

C6_Witness == last_llm = "backend_error" /\ outcome = "raised" /\ analyze_calls = 4

IsMinimalDecision(d) ==
    /\ d.status = "need_more_info"
    /\ d.missing_fields = <<"unknown">>
    /\ d.confidence = 0
    /\ d.reasoning = "Failed to parse requirements"
    /\ Len(d.suggested_questions) = 1
    /\ d.requirements = {}

\* C7: _parse_decision raises for no result value; a result that is no object,
\* or whose status is not a string, gives the minimal Decision, and every
\* Decision without requirements is the minimal one.
C7_ParseNeverRaises ==
    \A r \in ret :
        /\ ~r.raised
        /\ ~IsDict(arg) => IsMinimalDecision(r.value)
        /\ (IsDict(arg) /\ "status" \in DOMAIN arg.o /\ arg.o["status"].t # "str")
              => IsMinimalDecision(r.value)
        /\ r.value.requirements = {} => IsMinimalDecision(r.value)

C7_Witness ==
    /\ IsDict(arg) /\ "status" \in DOMAIN arg.o /\ arg.o["status"].t = "list"
    /\ \E r \in ret : ~r.raised /\ IsMinimalDecision(r.value)

\* C8 as stated: no malformed model output (text without parseable JSON, or
\* JSON of the wrong shape) makes the loop raise.
C8_MalformedNeverRaises ==
    last_llm \in {"json", "unparseable"} => outcome # "raised"

\* C8 amended: JSON of any shape never makes the loop raise; a reply without
\* parseable JSON does, like a backend error.
C8_OnlyJsonRecovered ==
    /\ last_llm = "json" => outcome # "raised"
    /\ last_llm = "unparseable" => pc = "done" /\ outcome = "raised"

C8_Witness ==
    /\ last_llm = "json" /\ outcome = "running" /\ pc = "loop"
    /\ IsMinimalDecision(decision) /\ iteration = 1

EndOfRound == pc \in {"loop", "final"} /\ iteration >= 1

\* C9 as stated: at the end of every round the running requirement's score is
\* at least its score before the round.
C9_ScoreMonotoneAcrossRounds ==
    EndOfRound => requirements.completeness_score >= before_round.completeness_score

\* C9 amended: the requirement update_requirements returns (the merge) has a
\* score at least the score before the round.
C9_MergeKeepsScore ==
    pc = "reanalyze" =>
        requirements.completeness_score >= before_round.completeness_score

C9_Witness ==
    /\ pc = "reanalyze" /\ before_round.completeness_score = 80
    /\ requirements.completeness_score = 80 /\ iteration = 2

\* what was known before the round is still there in reqs
Retains(before, reqs) ==
    /\ before.product_category => reqs.product_category # ""
    /\ before.budget => reqs.budget # {}
    /\ before.use_case => reqs.use_case # ""
    /\ before.must_have_specs \subseteq DOMAIN reqs.must_have_specs

\* C10 as stated: at the end of every round that is not cancelled the running
\* requirement still holds what was known before the round.
C10_RoundKeepsKnown == EndOfRound => Retains(before_round, requirements)

\* C10 amended: the requirement update_requirements returns still holds what
\* was known before the round.
C10_MergeKeepsKnown == pc = "reanalyze" => Retains(before_round, requirements)

C10_Witness ==
    /\ pc = "reanalyze" /\ before_round.product_category /\ before_round.budget
    /\ before_round.must_have_specs # {}
    /\ requirements.raw_input # "" /\ iteration = 2

\* C11 as stated: an iteration makes at most one call to the LLM and exactly
\* one read, so after k rounds the loop has made at most k calls and k reads.
C11_OneCallPerIteration ==
    EndOfRound =>
        /\ (analyze_calls - 1) + collector_calls <= iteration
        /\ reads = iteration

\* C11 amended: an iteration makes exactly one read of user input; before it
\* at most one LLM call (the selector's, and none when a suggested question is
\* fresh), after it exactly two (update_requirements, then the re-analysis);
\* no step both reads and calls the LLM.
C11_CallsPerIteration ==
    /\ [](/\ pc = "await_answer" =>
               reads = iteration - 1 /\ analyze_calls = 2 * iteration - 1
          /\ pc = "update" => reads = iteration /\ analyze_calls = 2 * iteration - 1
          /\ pc = "reanalyze" => reads = iteration /\ analyze_calls = 2 * iteration
          /\ pc \in {"loop", "final"} =>
               reads = iteration /\ analyze_calls = 2 * iteration + 1
          /\ pc \in {"loop", "final", "await_answer", "update", "reanalyze"} =>
               collector_calls <= iteration)
    /\ [][/\ ~(reads' # reads /\ (analyze_calls' # analyze_calls
                                  \/ collector_calls' # collector_calls))
          /\ (pc = "loop" /\ FreshSuggestions(decision.suggested_questions,
                                              asked_questions) # {})
                => collector_calls' = collector_calls]_vars

C11_Witness ==
    /\ pc = "loop" /\ iteration = 2 /\ reads = 2
    /\ analyze_calls = 5 /\ collector_calls = 1

\* C12 as stated: a Decision with status ready means the running requirement
\* satisfies is_complete, so a loop left on status ready passes the final check.
C12_ReadyIsComplete ==
    (pc = "loop" /\ decision.status = "ready") => is_complete(requirements)

\* C12 amended: a Decision with status ready ends the questioning at once (no
\* further question or extraction), a need_more_info Decision below the cap
\* leads to the next question, and the loop left on status ready returns
\* success iff the running requirement satisfies is_complete, else None.
C12_ReadyGoesToFinalCheck ==
    [][/\ (pc = "loop" /\ decision.status = "ready") =>
            /\ pc' = "done" /\ outcome' \in {"success", "failed"}
            /\ outcome' = "success" <=> is_complete(requirements)
            /\ outcome' = "failed" => returned' = {}
            /\ asked_questions' = asked_questions
            /\ analyze_calls' = analyze_calls
       /\ (pc = "loop" /\ decision.status = "need_more_info"
                        /\ iteration < 5) => pc' = "await_answer"]_vars

C12_Witness ==
    /\ pc = "loop" /\ decision.status = "ready" /\ iteration = 1
    /\ ~is_complete(requirements) /\ requirements.completeness_score = 80

\* what _gather_requirements returns on non-convergence: None (line 182)
NonConvergenceResult == {}

\* C13 as stated: the caller of the loop can tell a cancellation from
\* non-convergence: what the loop returns on cancellation differs from what it
\* returns when the final check fails.
C13_CancelDistinctForCaller ==
    outcome = "cancelled" => returned # NonConvergenceResult

\* C13 amended: a cancel answer makes the loop return None, the value it
\* returns on non-convergence, without an exception; the two differ only in
\* the message printed (cancellation prints one line and no missing fields).
C13_CancelReturnsNone ==
    /\ \A answer \in last_answer : CancelWord(answer) => outcome = "cancelled"
    /\ outcome = "cancelled" =>
          returned = NonConvergenceResult /\ printed = <<CancelMessage>>
    /\ outcome = "failed" =>
          /\ returned = NonConvergenceResult
          /\ Len(printed) = 2 /\ printed[1] # CancelMessage

C13_Witness ==
    /\ outcome = "cancelled" /\ last_answer = {"Exit"} /\ returned = {}
    /\ Len(asked_questions) = 2

Boundary(category) ==
    UserRequirements(category, {BudgetConstraint({}, 1500, FALSE)}, "gaming",
                     EmptyMap, EmptyMap, <<>>, <<>>, <<>>, <<>>, 70, "")

\* C15: is_complete holds exactly when the category has more than 2
\* characters, the budget is present with max > 0, must_have_specs or use_case
\* is non-empty and the score is at least 0.7; the requirement with category
\* "TV" is incomplete and the same one with "TVs" is complete.
C15_IsCompleteExactly ==
    \A r \in ret :
        /\ r.is_complete <=>
              /\ Len(arg.product_category) > 2
              /\ arg.budget # {} /\ \A b \in arg.budget : b.max > 0
              /\ (DOMAIN arg.must_have_specs # {} \/ arg.use_case # "")
              /\ arg.completeness_score >= 70
        /\ arg = Boundary("TV") => ~r.is_complete
        /\ arg = Boundary("TVs") => r.is_complete

C15_Witness == arg = Boundary("TV") /\ \E r \in ret : ~r.is_complete

\* C16: get_missing_fields returns, in the order product_category, budget,
\* specifications_or_use_case, exactly the labels of the failing checks of
\* is_complete: product_category iff the category is empty or not longer than
\* 2 characters, budget iff it is absent or max <= 0, and the one label
\* specifications_or_use_case iff must_have_specs and use_case are both empty.
C16_MissingMirrorsChecks ==
    \A r \in ret :
        r.missing =
            (IF arg.product_category = "" \/ Len(arg.product_category) <= 2
             THEN <<"product_category">> ELSE <<>>)
            \o (IF arg.budget = {} \/ \E b \in arg.budget : b.max <= 0
                THEN <<"budget">> ELSE <<>>)
            \o (IF DOMAIN arg.must_have_specs = {} /\ arg.use_case = ""
                THEN <<"specifications_or_use_case">> ELSE <<>>)

\* C17: the merge follows the field-by-field policy: product_category,
\* use_case, budget and priorities are new's when non-empty, else existing's;
\* the two spec mappings hold every key of either input, with new's value on a
\* common key; the score is the larger of the two.
C17_MergePolicy ==
    \A merged \in ret :
        LET existing == arg.existing
            new == arg.new
            Policy(e, n, m) ==
                /\ DOMAIN m = DOMAIN e \cup DOMAIN n
                /\ \A k \in DOMAIN n : m[k] = n[k]
                /\ \A k \in DOMAIN e \ DOMAIN n : m[k] = e[k]
        IN  /\ merged.product_category =
                 IF new.product_category # "" THEN new.product_category
                 ELSE existing.product_category
            /\ merged.use_case =
                 IF new.use_case # "" THEN new.use_case ELSE existing.use_case
            /\ merged.budget = IF new.budget # {} THEN new.budget ELSE existing.budget
            /\ merged.priorities =
                 IF new.priorities # <<>> THEN new.priorities ELSE existing.priorities
            /\ Policy(existing.must_have_specs, new.must_have_specs,
                      merged.must_have_specs)
            /\ Policy(existing.nice_to_have_specs, new.nice_to_have_specs,
                      merged.nice_to_have_specs)
            /\ merged.completeness_score >= existing.completeness_score
            /\ merged.completeness_score >= new.completeness_score
            /\ merged.completeness_score
                 \in {existing.completeness_score, new.completeness_score}

C17_Witness ==
    /\ ret # {}
    /\ arg.existing.must_have_specs = Gpu /\ DOMAIN arg.new.must_have_specs = {"gpu", "ram"}
    /\ arg.existing.product_category = "laptop" /\ arg.new.product_category = ""
    /\ arg.existing.completeness_score = 80 /\ arg.new.completeness_score = 0

\* a requirement whose fields are all empty or zero, raw_input aside
EmptyLike(r) == r = EmptyRequirements(r.raw_input)

\* raw_input has grown from `before` by exactly the text `appended`
GrownBy(before, appended, after) ==
    IF appended = "" THEN after = before
    ELSE IF before = "" THEN after = appended
    ELSE after = before \o "\n" \o appended

\* C18 as stated: merging R with an empty-like requirement gives R in every
\* field but raw_input, which grows by exactly the appended text.
C18_MergeIdempotent ==
    \A merged \in ret :
        EmptyLike(arg.new) =>
            /\ [merged EXCEPT !.raw_input = ""] = [arg.existing EXCEPT !.raw_input = ""]
            /\ GrownBy(arg.existing.raw_input, arg.new.raw_input, merged.raw_input)

\* C18 amended: merging R with an empty-like requirement gives R in every
\* field but raw_input, with deal_breakers, preferred_brands and
\* excluded_brands equal to R's as sets (returned without duplicates, in any
\* order); raw_input grows by exactly the appended text.
C18_MergeIdempotentAsSets ==
    \A merged \in ret :
        EmptyLike(arg.new) =>
            LET Rest(r) == [r EXCEPT !.raw_input = "", !.deal_breakers = <<>>,
                                     !.preferred_brands = <<>>,
                                     !.excluded_brands = <<>>]
                SameSet(before, after) ==
                    /\ Elements(after) = Elements(before)
                    /\ Len(after) = Cardinality(Elements(before))
            IN  /\ Rest(merged) = Rest(arg.existing)
                /\ SameSet(arg.existing.deal_breakers, merged.deal_breakers)
                /\ SameSet(arg.existing.preferred_brands, merged.preferred_brands)
                /\ SameSet(arg.existing.excluded_brands, merged.excluded_brands)
                /\ GrownBy(arg.existing.raw_input, arg.new.raw_input,
                           merged.raw_input)

C18_Witness ==
    /\ EmptyLike(arg.new) /\ arg.new.raw_input = "gaming laptop"
    /\ arg.existing.deal_breakers = <<"glossy", "glossy">>
    /\ arg.existing.completeness_score = 80
    /\ \E merged \in ret : merged.deal_breakers = <<"glossy">>

\* C19 as stated: a merged list is at least as long as each input list, for
\* deal_breakers, preferred_brands and excluded_brands.
C19_ListsNeverShrink ==
    \A merged \in ret :
        LET NotShorter(e, n, m) == Len(m) >= Len(e) /\ Len(m) >= Len(n)
        IN  /\ NotShorter(arg.existing.deal_breakers, arg.new.deal_breakers,
                          merged.deal_breakers)
            /\ NotShorter(arg.existing.preferred_brands, arg.new.preferred_brands,
                          merged.preferred_brands)
            /\ NotShorter(arg.existing.excluded_brands, arg.new.excluded_brands,
                          merged.excluded_brands)

\* C19 amended: a merged list holds every distinct element of the two input
\* lists exactly once, so it has at least as many elements as each input has
\* distinct elements; it is shorter than an input that repeats an element.
C19_DistinctNeverShrink ==
    \A merged \in ret :
        LET UnionOnce(e, n, m) ==
                /\ Elements(m) = Elements(e) \cup Elements(n)
                /\ Len(m) = Cardinality(Elements(m))
                /\ Len(m) >= Cardinality(Elements(e))
                /\ Len(m) >= Cardinality(Elements(n))
        IN  /\ UnionOnce(arg.existing.deal_breakers, arg.new.deal_breakers,
                         merged.deal_breakers)
            /\ UnionOnce(arg.existing.preferred_brands, arg.new.preferred_brands,
                         merged.preferred_brands)
            /\ UnionOnce(arg.existing.excluded_brands, arg.new.excluded_brands,
                         merged.excluded_brands)

C19_Witness ==
    /\ arg.existing.deal_breakers = <<"heavy", "glossy">>
    /\ arg.new.deal_breakers = <<"glossy", "glossy">>
    /\ \E merged \in ret : merged.deal_breakers = <<"glossy", "heavy">>

\* suggestion i is similar to no question of the history
NotYetAsked(i) ==
    \A j \in DOMAIN arg.asked_questions :
        ~_is_similar_question(arg.suggested_questions[i], arg.asked_questions[j])

\* C20: when a suggested question is similar to no asked question, the
\* selector returns the first such suggestion, in the order of the list; with
\* history ["What's your budget?"] and suggestions ["What is your budget
\* range?", "How will you use it?"] it returns the second suggestion.
C20_FirstFreshSuggestion ==
    \A question \in ret :
        /\ \A i \in DOMAIN arg.suggested_questions :
              (NotYetAsked(i) /\ \A k \in 1..(i - 1) : ~NotYetAsked(k))
                  => question = arg.suggested_questions[i]
        /\ (/\ arg.asked_questions = <<"What's your budget?">>
            /\ arg.suggested_questions =
                  <<"What is your budget range?", "How will you use it?">>)
              => question = "How will you use it?"

C20_Witness ==
    /\ arg.asked_questions = <<"What's your budget?">>
    /\ arg.suggested_questions = <<"What is your budget range?", "How will you use it?">>
    /\ ret = {"How will you use it?"}

\* the topic groups of the markers: product type, budget, use case
TopicGroups ==
    {{"what type", "which type", "what kind"},
     {"budget", "price", "cost"},
     {"use case", "how will you use", "what will you use"}}

\* question q holds a marker of group g
Mentions(q, g) == \E marker \in g : Contains(Lower(q), marker)

\* C21: two questions are judged similar if and only if both contain a marker
\* of the same topic group, so a question with 'budget' and one with 'price'
\* are similar, and questions sharing no group are not.
C21_SimilarIffSameGroup ==
    \A similar \in ret :
        similar <=> \E g \in TopicGroups : Mentions(arg.q1, g) /\ Mentions(arg.q2, g)

\* C22: every question the selector returns is in the asked-question history
\* when it is shown and before the answer is read, on every path (suggested,
\* LLM, fixed tree); the history grows by exactly one entry per question, and
\* only when a question is asked.
C22_TrackedBeforeShown ==
    /\ [](/\ shown = asked_questions
          /\ pc = "await_answer" => Len(asked_questions) = reads + 1)
    /\ [][/\ reads' # reads =>
                /\ asked_questions' = asked_questions
                /\ Len(asked_questions) = reads + 1
          /\ (pc = "loop" /\ pc' = "await_answer") =>
                /\ Len(asked_questions') = Len(asked_questions) + 1
                /\ SubSeq(asked_questions', 1, Len(asked_questions)) = asked_questions
                /\ asked_questions'[Len(asked_questions')] =
                      _generate_question(decision.suggested_questions, requirements,
                                         asked_questions, collector_llm)
          /\ ~(pc = "loop" /\ pc' = "await_answer") =>
                asked_questions' = asked_questions]_vars

C22_Witness ==
    /\ pc = "update" /\ reads = 3
    /\ asked_questions = <<"What is your budget range?", "How will you use it?",
                           "What's your budget for this purchase?">>

\* C23: when no suggested question survives the filter and the LLM call
\* fails, the selector returns the budget question if the budget is missing,
\* else the use-case question if the use case is missing, else the specs
\* question if the must-have specs are missing, else the catch-all question.
C23_FixedTreeOnFailure ==
    \A question \in ret :
        (/\ \A i \in DOMAIN arg.suggested_questions : ~NotYetAsked(i)
         /\ arg.reply = ApiError) =>
            question =
                IF arg.requirements.budget = {}
                THEN "What's your budget for this purchase?"
                ELSE IF arg.requirements.use_case = ""
                THEN "How do you plan to use this product?"
                ELSE IF DOMAIN arg.requirements.must_have_specs = {}
                THEN "Are there any specific features or specs you need?"
                ELSE "Could you tell me more about what you're looking for?"

C23_Witness ==
    /\ arg.reply = ApiError
    /\ arg.suggested_questions = <<"What is your budget range?">>
    /\ arg.asked_questions = <<"What's your budget?">>
    /\ arg.requirements.budget # {} /\ arg.requirements.use_case = ""
    /\ arg.requirements.must_have_specs = Gpu
    /\ ret = {"How do you plan to use this product?"}

\* C24: the question the selector returns is never identical to a question
\* already in the asked-question history, on any of its three paths.
C24_NeverRepeats ==
    \A question \in ret :
        \A j \in DOMAIN arg.asked_questions : question # arg.asked_questions[j]

\* C25: at the start of every negotiation loop invocation, a second run on
\* the same orchestrator included, the asked-question history is empty and no
\* requirement or conversation of an earlier session is left.
C25_NoStateAcrossSessions ==
    pc = "start" =>
        /\ asked_questions = <<>>
        /\ requirements = EmptyRequirements("")
        /\ conversation_history = <<>>

\* C28 as stated: the researcher and the analyzer are called only with a
\* requirement that satisfies is_complete, and after a cancellation, a failed
\* final check or an extractor error run returns the empty report without
\* calling them.
C28_EmptyReportWithoutResearch ==
    /\ \A i \in DOMAIN collaborator_calls :
          /\ collaborator_calls[i].requirements # {}
          /\ \A r \in collaborator_calls[i].requirements : is_complete(r)
    /\ (report # {} /\ outcome \in {"cancelled", "failed", "raised"}) =>
          report = {Return("")} /\ collaborator_calls = <<>>

\* C28 amended: the researcher and the analyzer are called only after a
\* successful negotiation, with the requirement it returned, which satisfies
\* is_complete; after a cancellation or a failed final check run returns the
\* empty report without calling them; after an extractor error it calls
\* neither and returns the empty report or, with Config.DEBUG set, re-raises.
C28_ResearchOnlyWhenComplete ==
    /\ \A i \in DOMAIN collaborator_calls :
          /\ outcome = "success"
          /\ collaborator_calls[i].requirements = returned
          /\ returned # {} /\ \A r \in returned : is_complete(r)
    /\ report # {} =>
          /\ outcome \in {"cancelled", "failed"} =>
                report = {Return("")} /\ collaborator_calls = <<>>
          /\ outcome = "raised" =>
                report \in {{Return("")}, {Raise}} /\ collaborator_calls = <<>>
          /\ outcome = "success" =>
                /\ collaborator_calls # <<>>
                /\ collaborator_calls[1].to = "researcher"

C28_Witness ==
    /\ outcome = "raised" /\ report = {Raise} /\ collaborator_calls = <<>>
    /\ last_llm = "backend_error" /\ analyze_calls = 2

\* the result differs from the base reply in its budget value at most
OnlyBudgetVaries(result) ==
    /\ IsDict(result) /\ "extracted_requirements" \in DOMAIN result.o
    /\ IsDict(result.o["extracted_requirements"])
    /\ Without(result.o, "extracted_requirements")
          = Without(BaseReply.o, "extracted_requirements")
    /\ Without(result.o["extracted_requirements"].o, "budget")
          = Without(BaseRequirements, "budget")

\* the budget value of the result is an object with a positive number as max
HasPositiveMax(result) ==
    LET req_data == result.o["extracted_requirements"].o
    IN  /\ "budget" \in DOMAIN req_data /\ IsDict(req_data["budget"])
        /\ "max" \in DOMAIN req_data["budget"].o
        /\ IsFloat(req_data["budget"].o["max"])
        /\ req_data["budget"].o["max"].n > 0

\* C26: the parsed Decision has a budget only when the JSON carries a positive
\* budget max; for every other budget value (absent, null, zero, negative, not
\* an object) it still carries the other extracted fields, with budget None.
C26_BudgetOnlyWhenPositive ==
    \A r \in ret :
        OnlyBudgetVaries(arg) =>
            /\ \A q \in r.value.requirements : q.budget # {} => HasPositiveMax(arg)
            /\ ~HasPositiveMax(arg) =>
                  /\ r.value.requirements # {}
                  /\ \A q \in r.value.requirements :
                        /\ q.budget = {}
                        /\ q.product_category = "gaming laptop"
                        /\ q.use_case = "gaming"
                        /\ q.must_have_specs = Gpu
                        /\ q.completeness_score = 80

\* the scenario at the end of its round: the initial extraction knew the
\* category only, with score 0.3; the user answered "under $1500"; the
\* extraction that followed gave status ready, score 0.8 and budget.max 1500
ScenarioRound ==
    /\ pc = "loop" /\ iteration = 1
    /\ initial_input = "gaming laptop"
    /\ before_round = [completeness_score |-> 30, product_category |-> TRUE,
                       budget |-> FALSE, use_case |-> FALSE, must_have_specs |-> {}]
    /\ last_answer = {"under $1500"}
    /\ decision.status = "ready" /\ decision.confidence = 80
    /\ \E r \in decision.requirements : \E b \in r.budget : b.max = 1500

\* C27 as stated: in the scenario the resulting requirement has category
\* "gaming laptop", budget.max 1500 and score 0.8, satisfies is_complete and
\* is returned as success after exactly one question.
C27_ScenarioSucceeds ==
    [][ScenarioRound =>
          /\ requirements.product_category = "gaming laptop"
          /\ \E b \in requirements.budget : b.max = 1500
          /\ requirements.completeness_score = 80
          /\ is_complete(requirements)
          /\ Len(asked_questions) = 1
          /\ outcome' = "success" /\ returned' = {requirements}]_vars

\* C27 amended: in the scenario the resulting requirement is the one of the
\* last extraction, with budget.max 1500 and score 0.8, reached after exactly
\* one question; it is returned as success exactly when that extraction also
\* names a category of more than 2 characters (such as "gaming laptop") and a
\* use case or a must-have spec, and otherwise the loop returns None.
C27_ScenarioNeedsUseCase ==
    [][ScenarioRound =>
          /\ decision.requirements = {requirements}
          /\ \E b \in requirements.budget : b.max = 1500
          /\ requirements.completeness_score = 80
          /\ Len(asked_questions) = 1 /\ asked_questions' = asked_questions
          /\ pc' = "done"
          /\ IF /\ Len(requirements.product_category) > 2
                /\ (requirements.use_case # ""
                    \/ DOMAIN requirements.must_have_specs # {})
             THEN outcome' = "success" /\ returned' = {requirements}
             ELSE outcome' = "failed" /\ returned' = {}]_vars

C27_Witness ==
    /\ ScenarioRound
    /\ requirements.product_category = "gaming laptop"
    /\ requirements.use_case = "gaming"
    /\ is_complete(requirements)

\* C29: an extraction that hits the parse fallback leaves the running
\* requirement unchanged in every field, in update_requirements and in the
\* re-analysis alike, and no other step of a round changes it; after a
\* fallback on the initial extraction the running requirement is the empty
\* one carrying only the initial raw_input.
C29_FallbackKeepsRequirement ==
    /\ []((pc = "loop" /\ iteration = 0 /\ last_parse = "fallback") =>
            requirements = EmptyRequirements(initial_input))
    /\ [][/\ (pc \in {"update", "reanalyze"} /\ last_parse' = "fallback") =>
                /\ requirements' = requirements
                /\ outcome' = "running"
          /\ (pc \in {"loop", "await_answer"} /\ pc' # "done") =>
                requirements' = requirements]_vars

C29_Witness ==
    /\ pc = "loop" /\ iteration = 1 /\ last_parse = "fallback"
    /\ IsMinimalDecision(decision)
    /\ requirements.product_category = "gaming laptop"
    /\ requirements.completeness_score = 30
    /\ requirements.raw_input = "gaming laptop"

\* C30: the forced-ready override is not applied in round 1: when the
\* Decision after the first round is need_more_info the loop asks a second
\* question, even with a running score >= 0.7; the break to the final check
\* is taken from round 2 on only.
C30_NoOverrideInRoundOne ==
    /\ [](pc = "final" => iteration >= 2)
    /\ [][/\ (/\ pc = "reanalyze" /\ iteration = 1 /\ outcome' = "running"
               /\ decision'.status = "need_more_info") => pc' = "loop"
          /\ (pc = "loop" /\ iteration = 1 /\ decision.status = "need_more_info") =>
                /\ pc' = "await_answer" /\ iteration' = 2
                /\ Len(asked_questions') = 2]_vars

C30_Witness ==
    /\ pc = "await_answer" /\ iteration = 2 /\ Len(asked_questions) = 2
    /\ decision.status = "need_more_info"
    /\ requirements.completeness_score = 75 /\ is_complete(requirements)

====
